---- MODULE Spec2Model ----
(***************************************************************************)
(* Model of auto-translate's translation pipeline:                         *)
(*   translationsParser.ts  (readTranslations .. addMissingTranslations)   *)
(*   utils.ts               (Either, lift, liftAsync)                      *)
(*   createTranslator.ts    (createTranslator, createPrompt)               *)
(*   translationsReader.ts  (readAllTranslations, writeLanguageFile(s))    *)
(*   index.ts               (the reader / writer / translator wiring)      *)
(*                                                                         *)
(* JavaScript values are tagged records, so that an object, a string, an   *)
(* Error and undefined can meet in one place (the pipeline is handed       *)
(* whatever the reader resolves to, and Object.keys / property reads act   *)
(* on it as JavaScript does).                                              *)
(***************************************************************************)
EXTENDS Integers, Sequences, FiniteSets, Bags, TLC

VARIABLES
    store,            \* the i18n folder: file name -> file content
    defaultLanguage,  \* settings.default
    supported,        \* settings.supported (a list)
    readerKind,       \* which reader is wired: "raw" (class reader) or "either"
    run,              \* number of addMissingTranslations runs started
    pc,               \* position of the current run
    promise,          \* state of the promise addMissingTranslations returned
    readerCalls,      \* reader invocations of the current run
    readValue,        \* what the reader resolved to in the current run
    readSet,          \* the translation set the store held at the read
    entries,          \* the fan-out list: bound translators, in list order
    runner,           \* per entry: the state of its translate() Runner
    sent,             \* translator invocations of the current run (a bag)
    replies,          \* per entry: what the translator resolved with, by key
    writerCalls,      \* the arguments the writer was invoked with, in order
    writes,           \* per writer call: the state of its promise
    result,           \* what the chain's result() returned
    logged,           \* console.error arguments of the current run
    prevRun,          \* summary of the previous run
    probe             \* a pure function applied on its own: inputs and output

vars == <<store, defaultLanguage, supported, readerKind, run, pc, promise,
          readerCalls, readValue, readSet, entries, runner, sent, replies,
          writerCalls, writes, result, logged, prevRun, probe>>

-----------------------------------------------------------------------------
(* Bounds *)

MaxRuns == 2

Languages == {"en", "fr", "de"}
TranslationKeys == <<"hello", "world">>

-----------------------------------------------------------------------------
(* JavaScript values *)

Undefined == [kind |-> "undefined"]
Str(s) == [kind |-> "string", s |-> s]
Obj(keys, get) == [kind |-> "object", keys |-> keys, get |-> get]
Err(name) == [kind |-> "error", name |-> name]
EmptyObject == Obj(<< >>, << >>)

Range(seq) == {seq[i] : i \in DOMAIN seq}

\* The characters of the strings the pipeline can come to enumerate.
CharsOf(s) ==
    CASE s = "" -> << >>
      [] s = "en" -> <<"e", "n">>
      [] s = "fr" -> <<"f", "r">>
      [] s = "de" -> <<"d", "e">>
      [] s = "left" -> <<"l", "e", "f", "t">>
      [] s = "right" -> <<"r", "i", "g", "h", "t">>
      [] s = "type" -> <<"t", "y", "p", "e">>
      [] s = "value" -> <<"v", "a", "l", "u", "e">>

IndexKey(i) == ToString(i - 1)

\* Object.keys(v): own enumerable keys in order; a string enumerates its
\* indices, an Error has no enumerable own property.
ObjectKeys(v) ==
    CASE v.kind = "object" -> v.keys
      [] v.kind = "string" -> [i \in 1..Len(CharsOf(v.s)) |-> IndexKey(i)]
      [] OTHER -> << >>

\* v[k]
Get(v, k) ==
    CASE v.kind = "object" -> IF k \in DOMAIN v.get THEN v.get[k] ELSE Undefined
      [] v.kind = "string" ->
            LET cs == CharsOf(v.s)
                hit == {i \in 1..Len(cs) : IndexKey(i) = k}
            IN IF hit = {} THEN Undefined ELSE Str(cs[CHOOSE i \in hit : TRUE])
      [] OTHER -> Undefined

\* !!v
Truthy(v) ==
    CASE v.kind = "undefined" -> FALSE
      [] v.kind = "string" -> v.s # ""
      [] OTHER -> TRUE

IsNullish(v) == v.kind = "undefined"

\* acc[key] = value on an object (a new key is appended to the key order)
SetKey(o, k, v) ==
    Obj(IF k \in Range(o.keys) THEN o.keys ELSE Append(o.keys, k),
        [x \in DOMAIN o.get \cup {k} |-> IF x = k THEN v ELSE o.get[x]])

RECURSIVE SpreadInto(_, _, _)
SpreadInto(acc, v, i) ==
    IF i > Len(ObjectKeys(v)) THEN acc
    ELSE SpreadInto(SetKey(acc, ObjectKeys(v)[i], Get(v, ObjectKeys(v)[i])), v, i + 1)

\* { ...a, ...b }
Spread(a, b) == SpreadInto(SpreadInto(EmptyObject, a, 1), b, 1)

\* JSON.parse(JSON.stringify(o)) of a flat object: undefined-valued
\* properties are dropped, everything else survives.
JsonRoundTrip(o) ==
    LET kept == SelectSeq(o.keys, LAMBDA k : o.get[k].kind # "undefined")
    IN Obj(kept, [k \in Range(kept) |-> o.get[k]])

-----------------------------------------------------------------------------
(* utils.ts: Either *)

left(e) == Obj(<<"type", "value">>, [type |-> Str("left"), value |-> e])
right(v) == Obj(<<"type", "value">>, [type |-> Str("right"), value |-> v])
isLeft(either) == either.get["type"] = Str("left")
isRight(either) == either.get["type"] = Str("right")

\* The outcome of evaluating a step: a returned value or a thrown exception
\* (for an async step: a fulfilled or a rejected promise).
Return(v) == [thrown |-> FALSE, v |-> v]
Throw(e) == [thrown |-> TRUE, v |-> e]

TypeError == Err("TypeError")

-----------------------------------------------------------------------------
(* createTranslator.ts *)

\* createPrompt(text, from, to): the template string, with its three
\* interpolations in place.
createPrompt(text, from, to) ==
    "You are given a text in " \o from \o " language. "
        \o "You need to translate and localize it to " \o to \o " language. "
        \o "The text is: " \o text

\* createTranslator(from, to, send): the closure (text) => send(createPrompt(..)),
\* given by what it closes over.
createTranslator(from, to) == [from |-> from, to |-> to]

-----------------------------------------------------------------------------
(* translationsParser.ts: the pure steps *)

\* readTranslations(reader): await reader() inside try/catch. `call` is what
\* the reader did: resolved to v, rejected with e or threw e synchronously.
readTranslations(call) ==
    IF call.how = "resolve" THEN Return(right(call.v))
    ELSE Return(left(call.v))

RECURSIVE ReduceMissing(_, _, _)
ReduceMissing(acc, keys, defaultTranslations) ==
    IF keys = << >> THEN acc
    ELSE ReduceMissing(SetKey(acc, Head(keys), Get(defaultTranslations, Head(keys))),
                       Tail(keys), defaultTranslations)

\* A differ that takes a key for translated as soon as the target has it,
\* whatever its value.
getMissingTranslationsAbsentOnly(defaultTranslations, targetTranslations) ==
    IF IsNullish(defaultTranslations) THEN Throw(TypeError)
    ELSE IF IsNullish(targetTranslations) /\ ObjectKeys(defaultTranslations) # << >>
    THEN Throw(TypeError)
    ELSE Return(ReduceMissing(EmptyObject,
                              SelectSeq(ObjectKeys(defaultTranslations),
                                        LAMBDA key : key \notin Range(ObjectKeys(targetTranslations))),
                              defaultTranslations))

\* A differ that forgets the filter: every key of the default map is reported.
getMissingTranslationsUnfiltered(defaultTranslations, targetTranslations) ==
    IF IsNullish(defaultTranslations) THEN Throw(TypeError)
    ELSE Return(ReduceMissing(EmptyObject, ObjectKeys(defaultTranslations),
                              defaultTranslations))

\* A differ that takes an undefined default map for an empty one.
getMissingTranslationsTolerant(defaultTranslations, targetTranslations) ==
    IF IsNullish(defaultTranslations) THEN Return(EmptyObject)
    ELSE IF IsNullish(targetTranslations) /\ ObjectKeys(defaultTranslations) # << >>
    THEN Throw(TypeError)
    ELSE LET missingTranslationKeys ==
                 SelectSeq(ObjectKeys(defaultTranslations),
                           LAMBDA key : ~Truthy(Get(targetTranslations, key)))
         IN Return(ReduceMissing(EmptyObject, missingTranslationKeys, defaultTranslations))

\* getMissingTranslations(defaultTranslations, targetTranslations).
\* Object.keys(undefined) throws a TypeError, and so does reading a property
\* of an undefined target inside the filter callback.
getMissingTranslations(defaultTranslations, targetTranslations) ==
    IF IsNullish(defaultTranslations) THEN Throw(TypeError)
    ELSE IF IsNullish(targetTranslations) /\ ObjectKeys(defaultTranslations) # << >>
    THEN Throw(TypeError)
    ELSE LET missingTranslationKeys ==
                 SelectSeq(ObjectKeys(defaultTranslations),
                           LAMBDA key : ~Truthy(Get(targetTranslations, key)))
         IN Return(ReduceMissing(EmptyObject, missingTranslationKeys, defaultTranslations))

\* A partition that forgets the filter: the default language stays in others.
extractDefaultAndOthersUnfiltered(defLang, translations) ==
    IF IsNullish(translations) THEN Throw(TypeError)
    ELSE LET languages == ObjectKeys(translations)
         IN Return([default |-> [language |-> defLang,
                                 translations |-> Get(translations, defLang)],
                    others |-> [i \in 1..Len(languages) |->
                                   [language |-> languages[i],
                                    translations |-> Get(translations, languages[i])]]])

\* extractDefaultAndOthers(defaultLanguage, translations)
extractDefaultAndOthers(defLang, translations) ==
    IF IsNullish(translations) THEN Throw(TypeError)
    ELSE LET languages == SelectSeq(ObjectKeys(translations), LAMBDA l : l # defLang)
         IN Return([default |-> [language |-> defLang,
                                 translations |-> Get(translations, defLang)],
                    others |-> [i \in 1..Len(languages) |->
                                   [language |-> languages[i],
                                    translations |-> Get(translations, languages[i])]]])

\* extractMissingTranslations({default, others}): others.map(...); the first
\* getMissingTranslations that throws ends the map.
extractMissingTranslations(translations) ==
    LET each == [i \in 1..Len(translations.others) |->
                    getMissingTranslations(translations.default.translations,
                                           translations.others[i].translations)]
        bad == {i \in DOMAIN each : each[i].thrown}
    IN IF bad # {} THEN each[CHOOSE i \in bad : \A j \in bad : i <= j]
       ELSE Return([i \in 1..Len(translations.others) |->
                       [language |-> translations.others[i].language,
                        translations |-> each[i].v]])

\* addTranslator(defaultLanguage, translator)(translation)
addTranslator(defLang, translation) ==
    [language |-> translation.language,
     translations |-> translation.translations,
     translate |-> createTranslator(translation.language, defLang)]

-----------------------------------------------------------------------------
(* utils.ts: liftAsync *)

\* liftAsync(fn).map(fn2): a Left passes through, fn2 is applied to a Right's
\* value; an exception of fn2 rejects the step's promise.  applied is the
\* outcome of fn2 on the Right's value, read only when the step runs fn2.
AsyncMap(c, applied) ==
    IF c.thrown THEN c
    ELSE IF isLeft(c.v) THEN c
    ELSE IF applied.thrown THEN applied ELSE Return(right(applied.v))

\* The value a map step hands to fn2.
RightValue(c) == c.v.get["value"]

\* result() without its try/catch.
AsyncResultUncaught(c) == c

\* liftAsync(fn).result(): try { return await fn() } catch (error) { return left(error) }
AsyncResult(c) == IF c.thrown THEN Return(left(c.v)) ELSE c

-----------------------------------------------------------------------------
(* translationsReader.ts and the class reader of index.ts: the store *)

Absent == [kind |-> "absent"]
Malformed == [kind |-> "malformed"]

\* The content read for one language: the parsed file, or {} when the file is
\* missing, unreadable or malformed.
ReadLanguage(files, lang) ==
    IF lang \in DOMAIN files /\ files[lang].kind = "object" THEN files[lang]
    ELSE EmptyObject

\* for (const lang of supportedLanguages) translations[lang] = ...
RECURSIVE ReadInto(_, _, _)
ReadInto(translations, files, languages) ==
    IF languages = << >> THEN translations
    ELSE ReadInto(SetKey(translations, Head(languages), ReadLanguage(files, Head(languages))),
                  files, Tail(languages))

\* A reader that gives up at the first file it cannot parse.
readAllTranslationsFailsFast(files, supportedLanguages) ==
    IF \E i \in DOMAIN supportedLanguages :
          /\ supportedLanguages[i] \in DOMAIN files
          /\ files[supportedLanguages[i]].kind = "malformed"
    THEN left(Err("ReadFailed"))
    ELSE right(ReadInto(EmptyObject, files, supportedLanguages))

\* readAllTranslations(supportedLanguages): right(translations), with one
\* entry per supported language, in the order of the list.
readAllTranslations(files, supportedLanguages) ==
    right(ReadInto(EmptyObject, files, supportedLanguages))

\* A merge with the spread the wrong way round: the stored value wins.
writeLanguageFileExistingWins(files, language, translations, append, fsError) ==
    LET exists == language \in DOMAIN files /\ files[language].kind # "absent"
    IN IF append /\ exists /\ files[language].kind = "malformed"
       THEN [files |-> files, res |-> left(Err("ReadExisting"))]
       ELSE IF fsError THEN [files |-> files, res |-> left(Err("FsError"))]
       ELSE LET existingTranslations ==
                    IF append /\ exists THEN files[language] ELSE EmptyObject
                newTranslations == Spread(translations, existingTranslations)
            IN [files |-> [f \in DOMAIN files \cup {language} |->
                              IF f = language THEN JsonRoundTrip(newTranslations)
                              ELSE files[f]],
                res |-> right(Undefined)]

\* writeLanguageFile(language, translations, {append}): the new content of the
\* folder and the Either returned. fsError: writeFileSync throws.
writeLanguageFile(files, language, translations, append, fsError) ==
    LET exists == language \in DOMAIN files /\ files[language].kind # "absent"
    IN IF append /\ exists /\ files[language].kind = "malformed"
       THEN [files |-> files, res |-> left(Err("ReadExisting"))]
       ELSE IF fsError THEN [files |-> files, res |-> left(Err("FsError"))]
       ELSE LET existingTranslations ==
                    IF append /\ exists THEN files[language] ELSE EmptyObject
                newTranslations == Spread(existingTranslations, translations)
            IN [files |-> [f \in DOMAIN files \cup {language} |->
                              IF f = language THEN JsonRoundTrip(newTranslations)
                              ELSE files[f]],
                res |-> right(Undefined)]

\* writeLanguageFiles(translations, {append}): one writeLanguageFile per key of
\* the argument, in key order, stopping at the first Left.
RECURSIVE WriteFilesFrom(_, _, _, _, _)
WriteFilesFrom(files, translations, i, append, fsError) ==
    IF i > Len(ObjectKeys(translations)) THEN [files |-> files, res |-> right(Undefined)]
    ELSE LET lang == ObjectKeys(translations)[i]
             w == writeLanguageFile(files, lang, Get(translations, lang), append, fsError)
         IN IF isLeft(w.res) THEN w
            ELSE WriteFilesFrom(w.files, translations, i + 1, append, fsError)

writeLanguageFiles(files, translations, append, fsError) ==
    WriteFilesFrom(files, translations, 1, append, fsError)

-----------------------------------------------------------------------------
(* translationsParser.ts: translate (the per-language Runner) *)

TextOf(v) == IF v.kind = "string" THEN v.s ELSE "undefined"

\* One invocation of the bound translate function: translate(translations[key])
\* is send(createPrompt(text, from, to)).
Invocation(entry, key) ==
    [language |-> entry.language,
     key |-> key,
     text |-> Get(entry.translations, key),
     from |-> entry.translate.from,
     to |-> entry.translate.to,
     prompt |-> createPrompt(TextOf(Get(entry.translations, key)),
                             entry.translate.from, entry.translate.to)]

\* resolve(right({ language: translation.language, translations: translated }))
RunnerValue(entry, translated) ==
    Obj(<<"language", "translations">>,
        [language |-> Str(entry.language), translations |-> translated])

\* A Runner that issues the calls for all its keys at once.
RunnerStartAllAtOnce(entry) ==
    LET keys == ObjectKeys(entry.translations)
    IN IF keys = << >>
       THEN [status |-> "resolved", pos |-> 0, inflight |-> {},
             translated |-> EmptyObject, error |-> Undefined]
       ELSE [status |-> "running", pos |-> 1, inflight |-> Range(keys),
             translated |-> EmptyObject, error |-> Undefined]

\* translate(translation) up to its first await: an empty map resolves at
\* once, otherwise the call for the first key is issued.
RunnerStart(entry) ==
    LET keys == ObjectKeys(entry.translations)
    IN IF keys = << >>
       THEN [status |-> "resolved", pos |-> 0, inflight |-> {},
             translated |-> EmptyObject, error |-> Undefined]
       ELSE [status |-> "running", pos |-> 1, inflight |-> {keys[1]},
             translated |-> EmptyObject, error |-> Undefined]

\* A loop body that stores the text it sent instead of the text it got back.
RunnerOnReplyKeepsSource(r, entry, key, translatedText) ==
    LET keys == ObjectKeys(entry.translations)
        translated == SetKey(r.translated, key, Get(entry.translations, key))
    IN IF r.pos < Len(keys)
       THEN [r EXCEPT !.pos = r.pos + 1, !.inflight = {keys[r.pos + 1]},
                      !.translated = translated]
       ELSE [r EXCEPT !.status = "resolved", !.inflight = {},
                      !.translated = translated]

\* A loop that stops once the run has ended.
RunnerOnReplyCancelled(r, entry, key, translatedText) ==
    LET keys == ObjectKeys(entry.translations)
        translated == SetKey(r.translated, key, translatedText)
    IN IF r.pos < Len(keys) /\ pc # "done"
       THEN [r EXCEPT !.pos = r.pos + 1, !.inflight = {keys[r.pos + 1]},
                      !.translated = translated]
       ELSE [r EXCEPT !.status = "resolved", !.inflight = {},
                      !.translated = translated]

\* The loop body after `await translate(translations[key])` resolved with
\* translatedText: store it, then issue the next key's call or resolve.
RunnerOnReply(r, entry, key, translatedText) ==
    LET keys == ObjectKeys(entry.translations)
        translated == SetKey(r.translated, key, translatedText)
    IN IF r.pos < Len(keys)
       THEN [r EXCEPT !.pos = r.pos + 1, !.inflight = {keys[r.pos + 1]},
                      !.translated = translated]
       ELSE [r EXCEPT !.status = "resolved", !.inflight = {},
                      !.translated = translated]

\* A catch block that resolves with what was translated so far.
RunnerOnRejectResolves(r, error) ==
    [r EXCEPT !.status = "resolved", !.inflight = {}, !.error = error]

\* A catch block that rejects with an error of its own.
RunnerOnRejectNewError(r, error) ==
    [r EXCEPT !.status = "rejected", !.inflight = {}, !.error = Err("Error")]

\* catch (error) { reject(error) }
RunnerOnReject(r, error) ==
    [r EXCEPT !.status = "rejected", !.inflight = {}, !.error = error]

\* A fan-out that starts one Runner and leaves the following ones waiting
\* for it.
StartRunnersOneAtATime(es) ==
    [i \in DOMAIN es |->
        IF \E j \in 1..(i - 1) : ObjectKeys(es[j].translations) # << >>
        THEN [status |-> "waiting", pos |-> 0, inflight |-> {},
              translated |-> EmptyObject, error |-> Undefined]
        ELSE RunnerStart(es[i])]

\* missingTranslationsWithTranslator.map(translate): translate is called for
\* every entry in turn, and each call runs up to its first await.
StartRunners(es) == [i \in DOMAIN es |-> RunnerStart(es[i])]

-----------------------------------------------------------------------------
(* The injected dependencies *)

\* What reader() does. "raw": the class reader of index.ts, which resolves to
\* the bare record; "either": readAllTranslations of translationsReader.ts,
\* which resolves to right(record); "left", "reject", "throw": a reader that
\* resolves to a Left, rejects, or throws synchronously.
ReaderKinds == {"raw", "either", "left", "reject", "throw"}

ReaderCall(kind, set) ==
    CASE kind = "raw" -> [how |-> "resolve", v |-> set]
      [] kind = "either" -> [how |-> "resolve", v |-> right(set)]
      [] kind = "left" -> [how |-> "resolve", v |-> left(Err("ReaderFailed"))]
      [] kind = "reject" -> [how |-> "reject", v |-> Err("ReaderRejected")]
      [] kind = "throw" -> [how |-> "throw", v |-> Err("ReaderThrew")]

\* What the translator (send) may resolve to for a prompt: the stub
\* x => "TR_" + x, or the empty string.
TranslatorReplies(prompt) == {Str("TR_" \o prompt), Str("")}

\* What one writer call does: "ok" and "fail" are writeLanguageFiles(arg,
\* {append: true}) without and with a file-system error, "reject" and "throw"
\* a writer that rejects its promise or throws synchronously.
WriterOutcomes == {"ok", "fail", "reject", "throw"}

\* The argument the orchestrator hands to the writer for one translated value:
\* translatedTranslations.map(dependencies.writer).
WriterArgument(value) == value

\* One writer call on the folder: the folder afterwards and how the call's
\* promise will settle.
WriterCall(files, arg, outcome) ==
    CASE outcome = "ok" ->
            LET w == writeLanguageFiles(files, arg, TRUE, FALSE)
            IN [files |-> w.files, settle |-> Return(w.res)]
      [] outcome = "fail" ->
            LET w == writeLanguageFiles(files, arg, TRUE, TRUE)
            IN [files |-> w.files, settle |-> Return(w.res)]
      [] outcome = "reject" -> [files |-> files, settle |-> Throw(Err("WriterRejected"))]
      [] outcome = "throw" -> [files |-> files, settle |-> Throw(Err("WriterThrew"))]

\* A loop that awaits each writer call and stops at the first that fails.
RECURSIVE CallWritersStopAtFailure(_, _, _, _, _, _)
CallWritersStopAtFailure(files, values, outs, i, calls, pending) ==
    IF i > Len(values)
    THEN [files |-> files, calls |-> calls, writes |-> pending, threw |-> FALSE]
    ELSE LET arg == WriterArgument(values[i])
             w == WriterCall(files, arg, outs[i])
         IN IF outs[i] = "throw"
            THEN [files |-> files, calls |-> Append(calls, arg),
                  writes |-> pending, threw |-> TRUE]
            ELSE IF outs[i] = "fail"
            THEN [files |-> w.files, calls |-> Append(calls, arg),
                  writes |-> Append(pending, [state |-> "pending", settle |-> w.settle]),
                  threw |-> FALSE]
            ELSE CallWritersStopAtFailure(w.files, values, outs, i + 1, Append(calls, arg),
                             Append(pending, [state |-> "pending", settle |-> w.settle]))

\* values.map(writer): the writer is called for each value in list order; a
\* synchronous throw ends the map.
RECURSIVE CallWriters(_, _, _, _, _, _)
CallWriters(files, values, outs, i, calls, pending) ==
    IF i > Len(values)
    THEN [files |-> files, calls |-> calls, writes |-> pending, threw |-> FALSE]
    ELSE LET arg == WriterArgument(values[i])
             w == WriterCall(files, arg, outs[i])
         IN IF outs[i] = "throw"
            THEN [files |-> files, calls |-> Append(calls, arg),
                  writes |-> pending, threw |-> TRUE]
            ELSE CallWriters(w.files, values, outs, i + 1, Append(calls, arg),
                             Append(pending, [state |-> "pending", settle |-> w.settle]))

-----------------------------------------------------------------------------
(* translationsParser.ts: addMissingTranslations *)

\* The chain up to the fan-out: readTranslations, then the three map steps.
Prepared(call, defLang) ==
    LET read == readTranslations(call)
        extracted == AsyncMap(read, extractDefaultAndOthers(defLang, RightValue(read)))
        missing == AsyncMap(extracted, extractMissingTranslations(RightValue(extracted)))
    IN AsyncMap(missing,
                Return([i \in DOMAIN RightValue(missing) |->
                            addTranslator(defLang, RightValue(missing)[i])]))

RunnerValues(es, rs) == [i \in DOMAIN es |-> RunnerValue(es[i], rs[i].translated)]

\* const result = await chain.result(); if (isLeft(result)) console.error(result.value)
Finish(c) ==
    LET r == AsyncResult(c)
    IN /\ pc' = "done"
       /\ IF r.thrown
          THEN /\ promise' = "rejected"
               /\ result' = Undefined
               /\ logged' = logged
          ELSE /\ promise' = "fulfilled"
               /\ result' = r.v
               /\ logged' = IF isLeft(r.v) THEN Append(logged, r.v.get["value"])
                            ELSE logged

\* The flatMapAllVoid step: the writer is called for every translated value;
\* an empty list succeeds at once.
WritePhase(es, rs) ==
    \E outs \in [DOMAIN es -> WriterOutcomes] :
        LET values == RunnerValues(es, rs)
            w == CallWriters(store, values, outs, 1, << >>, << >>)
        IN /\ store' = w.files
           /\ writerCalls' = w.calls
           /\ writes' = w.writes
           /\ IF w.threw THEN Finish(Throw(Err("WriterThrew")))
              ELSE IF values = << >> THEN Finish(Return(right(values)))
              ELSE /\ pc' = "writing"
                   /\ UNCHANGED <<promise, result, logged>>

\* A fan-out that surfaces every failure as it comes, the last one winning.
JoinStepLastWins(i, rs) ==
    IF rs[i].status = "rejected"
    THEN /\ Finish(Throw(rs[i].error))
         /\ UNCHANGED <<store, writerCalls, writes>>
    ELSE IF pc # "translating"
    THEN UNCHANGED <<pc, promise, result, logged, store, writerCalls, writes>>
    ELSE IF \A j \in DOMAIN rs : rs[j].status = "resolved"
    THEN WritePhase(entries, rs)
    ELSE UNCHANGED <<pc, promise, result, logged, store, writerCalls, writes>>

\* The flatMapAll step after Runner i settled: its rejection fails the chain,
\* the last resolution starts the writes.
JoinStep(i, rs) ==
    IF pc # "translating"
    THEN UNCHANGED <<pc, promise, result, logged, store, writerCalls, writes>>
    ELSE IF rs[i].status = "rejected"
    THEN /\ Finish(Throw(rs[i].error))
         /\ UNCHANGED <<store, writerCalls, writes>>
    ELSE IF \A j \in DOMAIN rs : rs[j].status = "resolved"
    THEN WritePhase(entries, rs)
    ELSE UNCHANGED <<pc, promise, result, logged, store, writerCalls, writes>>

Issued(es, i, keys) == SetToBag({Invocation(es[i], k) : k \in keys})

Settled == /\ \A i \in DOMAIN runner : runner[i].status # "running"
           /\ \A i \in DOMAIN writes : writes[i].state # "pending"

\* addMissingTranslations(defaultLanguage, dependencies) is called: the chain
\* runs up to reader(), which reads the folder.
Start ==
    /\ pc \in {"idle", "done"}
    /\ run < MaxRuns
    /\ Settled
    /\ run' = run + 1
    /\ pc' = "reading"
    /\ promise' = "pending"
    /\ readerCalls' = 1
    /\ readSet' = readAllTranslations(store, supported).get["value"]
    /\ readValue' = Undefined
    /\ entries' = << >>
    /\ runner' = << >>
    /\ sent' = EmptyBag
    /\ replies' = << >>
    /\ writerCalls' = << >>
    /\ writes' = << >>
    /\ result' = Undefined
    /\ logged' = << >>
    /\ prevRun' = [ran |-> run > 0,
                   ok |-> run > 0 /\ promise = "fulfilled" /\ logged = << >>,
                   sends |-> BagCardinality(sent)]
    /\ UNCHANGED <<store, defaultLanguage, supported, readerKind, probe>>

\* The reader's promise settles; the chain runs on to the fan-out, where every
\* language's Runner is started.
ReaderSettles ==
    /\ pc = "reading"
    /\ LET call == ReaderCall(readerKind, readSet)
           c == Prepared(call, defaultLanguage)
       IN /\ readValue' = (IF call.how = "resolve" THEN call.v ELSE Undefined)
          /\ IF c.thrown \/ isLeft(c.v)
             THEN /\ Finish(c)
                  /\ UNCHANGED <<entries, runner, sent, replies, store,
                                 writerCalls, writes>>
             ELSE LET es == c.v.get["value"]
                      rs == StartRunners(es)
                  IN /\ entries' = es
                     /\ runner' = rs
                     /\ sent' = BagUnion({Issued(es, i, rs[i].inflight) : i \in DOMAIN es})
                     /\ replies' = [i \in DOMAIN es |-> EmptyObject]
                     /\ IF \A i \in DOMAIN rs : rs[i].status = "resolved"
                        THEN WritePhase(es, rs)
                        ELSE /\ pc' = "translating"
                             /\ UNCHANGED <<promise, result, logged, store,
                                            writerCalls, writes>>
    /\ UNCHANGED <<defaultLanguage, supported, readerKind, run, readerCalls,
                   readSet, prevRun, probe>>

\* A translator call of Runner i resolves.
TranslatorResolves(i) ==
    /\ runner[i].status = "running"
    /\ \E key \in runner[i].inflight :
       \E translatedText \in TranslatorReplies(Invocation(entries[i], key).prompt) :
          LET r == RunnerOnReply(runner[i], entries[i], key, translatedText)
              rs == [runner EXCEPT ![i] = r]
          IN /\ runner' = rs
             /\ sent' = sent (+) Issued(entries, i, r.inflight \ (runner[i].inflight \ {key}))
             /\ replies' = [replies EXCEPT ![i] = SetKey(@, key, translatedText)]
             /\ JoinStep(i, rs)
    /\ UNCHANGED <<defaultLanguage, supported, readerKind, run, readerCalls,
                   readValue, readSet, entries, prevRun, probe>>

\* A translator call of Runner i rejects.
TranslatorRejects(i) ==
    /\ runner[i].status = "running"
    /\ \E key \in runner[i].inflight :
          LET r == RunnerOnReject(runner[i], Err("TranslationFailed:" \o entries[i].language))
              rs == [runner EXCEPT ![i] = r]
          IN /\ runner' = rs
             /\ JoinStep(i, rs)
    /\ UNCHANGED <<defaultLanguage, supported, readerKind, run, readerCalls,
                   readValue, readSet, entries, sent, replies, prevRun, probe>>

\* The promise of writer call i settles.
WriterSettles(i) ==
    /\ writes[i].state = "pending"
    /\ writes' = [writes EXCEPT ![i].state = "settled"]
    /\ IF pc # "writing" THEN UNCHANGED <<pc, promise, result, logged>>
       ELSE IF writes[i].settle.thrown THEN Finish(writes[i].settle)
       ELSE IF isLeft(writes[i].settle.v) THEN Finish(Return(writes[i].settle.v))
       ELSE IF \A j \in DOMAIN writes : j # i => writes[j].state = "settled"
       THEN Finish(Return(right(RunnerValues(entries, runner))))
       ELSE UNCHANGED <<pc, promise, result, logged>>
    /\ UNCHANGED <<store, defaultLanguage, supported, readerKind, run, readerCalls,
                   readValue, readSet, entries, runner, sent, replies, writerCalls,
                   prevRun, probe>>

-----------------------------------------------------------------------------
(* Initial states *)

RECURSIVE MapFrom(_, _)
MapFrom(acc, pairs) ==
    IF pairs = << >> THEN acc
    ELSE MapFrom(SetKey(acc, Head(pairs)[1], Str(Head(pairs)[2])), Tail(pairs))

MapOf(pairs) == MapFrom(EmptyObject, pairs)

DefaultFiles ==
    { MapOf(<< >>),
      MapOf(<< <<"hello", "Hello">> >>),
      MapOf(<< <<"hello", "Hello">>, <<"world", "World">> >>) }

FrFiles ==
    { Absent, Malformed,
      MapOf(<< <<"hello", "Bonjour">> >>),
      MapOf(<< <<"hello", "">>, <<"world", "Monde">> >>),
      MapOf(<< <<"hello", "Bonjour">>, <<"world", "Monde">> >>) }

DeFiles ==
    { Absent,
      MapOf(<< <<"world", "Welt">> >>),
      MapOf(<< <<"world", "Welt">>, <<"hello", "Hallo">> >>) }

SupportedLists ==
    { << >>, <<"en">>, <<"en", "fr">>, <<"fr", "en", "de">>, <<"fr", "de">> }

FileNames == Languages \cup {"type", "language", "translations"}

InitialStores ==
    { [f \in FileNames |->
          CASE f = "en" -> en [] f = "fr" -> fr [] f = "de" -> de [] OTHER -> Absent] :
      en \in DefaultFiles \cup {Absent}, fr \in FrFiles, de \in DeFiles }

\* A project whose default language is called "type".
TypeStore ==
    [f \in FileNames |->
        IF f = "type" THEN MapOf(<< <<"hello", "Hello">> >>) ELSE Absent]

NoProbe == [op |-> "none"]

Idle ==
    /\ run = 0
    /\ pc = "idle"
    /\ promise = "none"
    /\ readerCalls = 0
    /\ readValue = Undefined
    /\ readSet = EmptyObject
    /\ entries = << >>
    /\ runner = << >>
    /\ sent = EmptyBag
    /\ replies = << >>
    /\ writerCalls = << >>
    /\ writes = << >>
    /\ result = Undefined
    /\ logged = << >>
    /\ prevRun = [ran |-> FALSE, ok |-> FALSE, sends |-> 0]

\* The settings, the translation folder and the reader a run starts from.
Project ==
    \/ /\ defaultLanguage = "en"
       /\ supported \in SupportedLists
       /\ store \in { s \in InitialStores :
                        \A l \in Languages \ Range(supported) : s[l].kind = "absent" }
       /\ readerKind \in ReaderKinds
    \/ /\ defaultLanguage = "type"
       /\ supported = <<"type", "fr">>
       /\ store = TypeStore
       /\ readerKind \in {"raw", "either", "left"}

Init ==
    /\ Project
    /\ Idle
    /\ probe = NoProbe

Next ==
    \/ Start
    \/ ReaderSettles
    \/ \E i \in DOMAIN runner : TranslatorResolves(i)
    \/ \E i \in DOMAIN runner : TranslatorRejects(i)
    \/ \E i \in DOMAIN writes : WriterSettles(i)

Spec == Init /\ [][Next]_vars

-----------------------------------------------------------------------------
(* getMissingTranslations on its own *)

\* The flat maps over two keys, in both insertion orders.
MapsWith(values) ==
    {EmptyObject}
        \cup {MapOf(<< <<k, v>> >>) : k \in Range(TranslationKeys), v \in values}
        \cup UNION {{MapOf(<< <<k1, v1>>, <<k2, v2>> >>) :
                        k2 \in Range(TranslationKeys) \ {k1},
                        v1 \in values, v2 \in values} :
                    k1 \in Range(TranslationKeys)}

DefaultMaps == MapsWith({"", "Hello"})
TargetMaps == MapsWith({"", "Bonjour"})

Quiet ==
    /\ defaultLanguage = "en"
    /\ supported = <<"en">>
    /\ store = [f \in FileNames |-> Absent]
    /\ readerKind = "raw"
    /\ Idle

InitDiffer ==
    /\ Quiet
    /\ probe \in {[op |-> "getMissingTranslations", D |-> d, T |-> t,
                   applied |-> FALSE, out |-> Return(Undefined)] :
                  d \in DefaultMaps, t \in TargetMaps}

ApplyDiffer ==
    /\ probe.op = "getMissingTranslations"
    /\ ~probe.applied
    /\ probe' = [probe EXCEPT !.applied = TRUE,
                              !.out = getMissingTranslations(probe.D, probe.T)]
    /\ UNCHANGED <<store, defaultLanguage, supported, readerKind, run, pc, promise,
                   readerCalls, readValue, readSet, entries, runner, sent, replies,
                   writerCalls, writes, result, logged, prevRun>>

SpecDiffer == InitDiffer /\ [][ApplyDiffer]_vars

-----------------------------------------------------------------------------
(* extractDefaultAndOthers on its own *)

PartitionLanguages == Languages \cup {"es"}

\* The lists of distinct languages: the key orders a translation set can have.
RECURSIVE DistinctLists(_)
DistinctLists(pool) ==
    {<< >>} \cup UNION {{<<l>> \o rest : rest \in DistinctLists(pool \ {l})} : l \in pool}

\* Each language's own map, different from every other language's.
OwnMap(l) == MapOf(<< <<"hello", "hello in " \o l>> >>)

TranslationSets ==
    {Obj(list, [l \in Range(list) |-> OwnMap(l)]) : list \in DistinctLists(PartitionLanguages)}

InitPartition ==
    /\ Quiet
    /\ probe \in {[op |-> "extractDefaultAndOthers", lang |-> l, set |-> t,
                   applied |-> FALSE, out |-> Return(Undefined)] :
                  l \in PartitionLanguages, t \in TranslationSets}

ApplyPartition ==
    /\ probe.op = "extractDefaultAndOthers"
    /\ ~probe.applied
    /\ probe' = [probe EXCEPT !.applied = TRUE,
                              !.out = extractDefaultAndOthers(probe.lang, probe.set)]
    /\ UNCHANGED <<store, defaultLanguage, supported, readerKind, run, pc, promise,
                   readerCalls, readValue, readSet, entries, runner, sent, replies,
                   writerCalls, writes, result, logged, prevRun>>

SpecPartition == InitPartition /\ [][ApplyPartition]_vars

-----------------------------------------------------------------------------
(* readTranslations on its own *)

InitReadTranslations ==
    /\ Quiet
    /\ probe \in {[op |-> "readTranslations", kind |-> k, call |-> ReaderCall(k, t),
                   applied |-> FALSE, out |-> Return(Undefined)] :
                  k \in ReaderKinds, t \in TranslationSets}

ApplyReadTranslations ==
    /\ probe.op = "readTranslations"
    /\ ~probe.applied
    /\ probe' = [probe EXCEPT !.applied = TRUE,
                              !.out = readTranslations(probe.call)]
    /\ UNCHANGED <<store, defaultLanguage, supported, readerKind, run, pc, promise,
                   readerCalls, readValue, readSet, entries, runner, sent, replies,
                   writerCalls, writes, result, logged, prevRun>>

SpecReadTranslations == InitReadTranslations /\ [][ApplyReadTranslations]_vars

-----------------------------------------------------------------------------
(* readAllTranslations on its own *)

\* The folder at the read: each language's file missing, malformed (or
\* unreadable) or holding a map.
ReadStores ==
    {[f \in FileNames |->
         CASE f = "en" -> en [] f = "fr" -> fr [] f = "de" -> de [] OTHER -> Absent] :
     en \in {Absent, Malformed, MapOf(<< <<"hello", "Hello">> >>)},
     fr \in {Absent, Malformed, MapOf(<< <<"hello", "Bonjour">> >>)},
     de \in {Absent, Malformed, MapOf(<< <<"hello", "">>, <<"world", "Welt">> >>)}}

\* The supported lists: up to three languages, a language listed twice
\* included.
SupportedInputs ==
    {<< >>} \cup {<<a>> : a \in Languages}
        \cup {<<a, b>> : a \in Languages, b \in Languages}
        \cup {<<"fr", "en", "de">>, <<"en", "fr", "en">>}

InitReadAll ==
    /\ Quiet
    /\ probe \in {[op |-> "readAllTranslations", files |-> fs, supported |-> sl,
                   applied |-> FALSE, out |-> right(EmptyObject)] :
                  fs \in ReadStores, sl \in SupportedInputs}

ApplyReadAll ==
    /\ probe.op = "readAllTranslations"
    /\ ~probe.applied
    /\ probe' = [probe EXCEPT
                    !.applied = TRUE,
                    !.out = readAllTranslations(probe.files, probe.supported)]
    /\ UNCHANGED <<store, defaultLanguage, supported, readerKind, run, pc, promise,
                   readerCalls, readValue, readSet, entries, runner, sent, replies,
                   writerCalls, writes, result, logged, prevRun>>

SpecReadAll == InitReadAll /\ [][ApplyReadAll]_vars

-----------------------------------------------------------------------------
(* writeLanguageFile on its own *)

\* The folder before the write: fr.json missing, malformed or holding a map,
\* de.json missing or holding a map.
MergeStores ==
    {[f \in FileNames |->
         CASE f = "fr" -> fr [] f = "de" -> de [] OTHER -> Absent] :
     fr \in {Absent, Malformed} \cup TargetMaps,
     de \in {Absent, MapOf(<< <<"world", "Welt">> >>)}}

PartialMaps == MapsWith({"", "Salut"})

InitMerge ==
    /\ Quiet
    /\ probe \in {[op |-> "writeLanguageFile", files |-> fs, language |-> l,
                   translations |-> t, append |-> a, fsError |-> e,
                   applied |-> FALSE,
                   out |-> [files |-> fs, res |-> right(Undefined)]] :
                  fs \in MergeStores, l \in {"fr", "de"}, t \in PartialMaps,
                  a \in BOOLEAN, e \in BOOLEAN}

ApplyMerge ==
    /\ probe.op = "writeLanguageFile"
    /\ ~probe.applied
    /\ probe' = [probe EXCEPT
                    !.applied = TRUE,
                    !.out = writeLanguageFile(probe.files, probe.language,
                                              probe.translations, probe.append,
                                              probe.fsError)]
    /\ UNCHANGED <<store, defaultLanguage, supported, readerKind, run, pc, promise,
                   readerCalls, readValue, readSet, entries, runner, sent, replies,
                   writerCalls, writes, result, logged, prevRun>>

SpecMerge == InitMerge /\ [][ApplyMerge]_vars

-----------------------------------------------------------------------------
(* utils.ts: lift, and the remaining steps of liftAsync *)

\* A flatMap without the isLeft test: fn2 is called on a Left's value too.
LiftFlatMapIgnoresLeft(c, applied) ==
    IF c.thrown THEN c ELSE applied

\* lift(fn).flatMap(fn2): a Left is returned at once, otherwise fn2's Either
\* is returned as it is.
LiftFlatMap(c, applied) ==
    IF c.thrown THEN c
    ELSE IF isLeft(c.v) THEN c
    ELSE applied

\* lift(fn).flatMapVoid(fn2): fn2's Left is returned, otherwise the value that
\* came in.
LiftFlatMapVoid(c, applied) ==
    IF c.thrown THEN c
    ELSE IF isLeft(c.v) THEN c
    ELSE IF applied.thrown THEN applied
    ELSE IF isLeft(applied.v) THEN Return(applied.v)
    ELSE Return(right(RightValue(c)))

LiftMap(c, applied) ==
    IF c.thrown THEN c
    ELSE IF isLeft(c.v) THEN c
    ELSE IF applied.thrown THEN applied ELSE Return(right(applied.v))

\* lift(fn).mapError(fn2): fn2 is applied to a Left's value.
LiftMapError(c, applied) ==
    IF c.thrown THEN c
    ELSE IF isLeft(c.v)
    THEN IF applied.thrown THEN applied ELSE Return(left(applied.v))
    ELSE c

\* result() without its try/catch.
LiftResultUncaught(c) == c

\* lift(fn).result(): try { return fn(value) } catch (error) { return left(error) }
LiftResult(c) == IF c.thrown THEN Return(left(c.v)) ELSE c

AsyncFlatMap(c, applied) ==
    IF c.thrown THEN c
    ELSE IF isLeft(c.v) THEN c
    ELSE applied

\* A void step that hands on what the void function resolved to.
AsyncFlatMapVoidKeepsVoid(c, applied) ==
    IF c.thrown THEN c
    ELSE IF isLeft(c.v) THEN c
    ELSE applied

AsyncFlatMapVoid(c, applied) ==
    IF c.thrown THEN c
    ELSE IF isLeft(c.v) THEN c
    ELSE IF applied.thrown THEN applied
    ELSE IF isLeft(applied.v) THEN Return(applied.v)
    ELSE Return(right(RightValue(c)))

AsyncMapError(c, applied) ==
    IF c.thrown THEN c
    ELSE IF isLeft(c.v)
    THEN IF applied.thrown THEN applied ELSE Return(left(applied.v))
    ELSE c

\* Whether a step calls its function fn2, given what the chain before it
\* yielded: every step returns a Left at once, except mapError, which returns
\* a Right at once; an exception of the chain before passes through all.
Invoked(kind, c) ==
    IF c.thrown THEN FALSE
    ELSE IF kind = "mapError" THEN isLeft(c.v)
    ELSE isRight(c.v)

\* The step of the given kind in the synchronous or the asynchronous variant.
Combine(sync, kind, c, applied) ==
    CASE kind = "map" -> IF sync THEN LiftMap(c, applied) ELSE AsyncMap(c, applied)
      [] kind = "flatMap" ->
            IF sync THEN LiftFlatMap(c, applied) ELSE AsyncFlatMap(c, applied)
      [] kind = "flatMapVoid" ->
            IF sync THEN LiftFlatMapVoid(c, applied) ELSE AsyncFlatMapVoid(c, applied)
      [] kind = "mapError" ->
            IF sync THEN LiftMapError(c, applied) ELSE AsyncMapError(c, applied)

Failing(c) == c.thrown \/ isLeft(c.v)

-----------------------------------------------------------------------------
(* liftAsync: the fan-out steps flatMapAll and flatMapAllVoid *)

\* A JavaScript array.
Arr(items) == [kind |-> "array", items |-> items]

FanOutKinds == {"flatMapAll", "flatMapAllVoid"}

\* A fan-out step calls its function on a Right and passes a Left through.
FanOutInvoked(c) == ~c.thrown /\ isRight(c.v)

\* A fan-out that takes a sub-operation resolving to a Left for a success.
FanOutFailsOnRejectOnly(o) == o.thrown

\* A sub-operation fails the fan-out by rejecting or by resolving to a Left.
FanOutFails(o) == o.thrown \/ isLeft(o.v)

\* What the chain yields when sub-operation outcome o failed the fan-out.
FanOutFailure(o) == IF o.thrown THEN o ELSE Return(o.v)

\* A fan-out that collects the values as the sub-operations settle.
FanOutJoinInSettleOrder(kind, input, outs, order) ==
    IF kind = "flatMapAll"
    THEN Return(right(Arr([k \in DOMAIN order |-> RightValue(outs[order[k]])])))
    ELSE Return(right(input))

\* What the chain yields when every sub-operation succeeded: flatMapAll the
\* list of their values in list order, flatMapAllVoid the value that came in.
\* outs are the outcomes in list order, order the indices in settle order.
FanOutJoin(kind, input, outs, order) ==
    IF kind = "flatMapAll"
    THEN Return(right(Arr([i \in DOMAIN outs |-> RightValue(outs[i])])))
    ELSE Return(right(input))

-----------------------------------------------------------------------------
(* A chain on its own: lift(fn) or liftAsync(fn), steps added one by one,     *)
(* then result()                                                             *)

MaxSteps == 2
MaxSubs == 2

\* f(v) for a step function f the chain is given: the chain does not look
\* into the value.
App(fn, arg) == [kind |-> "applied", fn |-> fn, arg |-> arg]

StepError(what, n) == Err(what \o ToString(n))

\* What the lifted function does: return a Right, return a Left, or throw
\* (reject, for liftAsync).
Starts ==
    {Return(right(Str("input"))), Return(left(StepError("Failed", 0))),
     Throw(StepError("Threw", 0))}

\* The steps a chain can be given: the kind of step and what its function
\* does when it is called; for a fan-out, how many sub-operations it returns.
PlainSteps ==
    {[kind |-> k, does |-> d, count |-> 0] :
        k \in {"map", "mapError"}, d \in {"returns", "throws"}}
    \cup {[kind |-> k, does |-> d, count |-> 0] :
            k \in {"flatMap", "flatMapVoid"}, d \in {"returns", "fails", "throws"}}

FanOutSteps ==
    {[kind |-> k, does |-> "returns", count |-> n] :
        k \in FanOutKinds, n \in 0..MaxSubs}

\* What a sub-operation may do: resolve to a Right, resolve to a Left, reject.
SubHows == {"ok", "fail", "reject"}

Steps(sync) == IF sync THEN PlainSteps ELSE PlainSteps \cup FanOutSteps

\* The outcome of step n's function on v.
Applied(step, n, v) ==
    CASE step.does = "throws" -> Throw(StepError("Threw", n))
      [] step.does = "fails" -> Return(left(StepError("Failed", n)))
      [] step.kind \in {"map", "mapError"} -> Return(App("f" \o ToString(n), v))
      [] step.kind = "flatMap" -> Return(right(App("f" \o ToString(n), v)))
      [] step.kind = "flatMapVoid" -> Return(right(Undefined))

SubError(what, i) == Err(what \o ToString(i))

\* The outcome of sub-operation i of a fan-out on v.
SubOutcome(kind, i, how, v) ==
    CASE how = "reject" -> Throw(SubError("SubRejected", i))
      [] how = "fail" -> Return(left(SubError("SubFailed", i)))
      [] kind = "flatMapAll" -> Return(right(App("sub" \o ToString(i), v)))
      [] OTHER -> Return(right(Undefined))

\* What is remembered of a step: what it was, whether its function was
\* called and on what, the chain's outcome before and after it, and for a
\* fan-out whether a sub-operation settled before one listed ahead of it and
\* which sub-operation failed first.
NoStep ==
    [kind |-> "none", does |-> "returns", count |-> 0, n |-> 0,
     called |-> FALSE, input |-> Undefined, before |-> Return(Undefined),
     after |-> Return(Undefined), outOfOrder |-> FALSE,
     failedSub |-> 0, failedHow |-> "ok"]

InitChain ==
    /\ Quiet
    /\ probe \in {[op |-> "chain", sync |-> b, pos |-> 0, cur |-> c,
                   waiting |-> FALSE, subs |-> << >>, order |-> << >>,
                   last |-> NoStep, prior |-> NoStep,
                   failed |-> Failing(c), failure |-> c, failedBy |-> NoStep,
                   lateCalled |-> FALSE, mapped |-> FALSE,
                   done |-> FALSE, final |-> Return(Undefined)] :
                  b \in BOOLEAN, c \in Starts}

ChainUnchanged ==
    UNCHANGED <<store, defaultLanguage, supported, readerKind, run, pc, promise,
                readerCalls, readValue, readSet, entries, runner, sent, replies,
                writerCalls, writes, result, logged, prevRun>>

\* The chain's outcome changes to out after the step `step`: the first
\* failure is remembered.
Outcome(p, step, out) ==
    [p EXCEPT !.cur = out,
              !.last = [step EXCEPT !.after = out],
              !.failed = p.failed \/ Failing(out),
              !.failure = IF ~p.failed /\ Failing(out) THEN out ELSE p.failure,
              !.failedBy = IF ~p.failed /\ Failing(out)
                           THEN [step EXCEPT !.after = out] ELSE p.failedBy]

\* Step n of the chain runs.
ChainStep(step) ==
    /\ probe.op = "chain"
    /\ ~probe.done
    /\ ~probe.waiting
    /\ probe.pos < MaxSteps
    /\ LET c == probe.cur
           n == probe.pos + 1
           fan == step.kind \in FanOutKinds
           called == IF fan THEN FanOutInvoked(c) ELSE Invoked(step.kind, c)
           input == IF called THEN RightValue(c) ELSE Undefined
           starts == fan /\ called /\ step.count > 0
           out == IF ~fan THEN Combine(probe.sync, step.kind, c, Applied(step, n, RightValue(c)))
                  ELSE IF called /\ step.count = 0
                  THEN FanOutJoin(step.kind, input, << >>, << >>)
                  ELSE c
           this == [kind |-> step.kind, does |-> step.does, count |-> step.count,
                    n |-> n, called |-> called, input |-> input, before |-> c,
                    after |-> out, outOfOrder |-> FALSE,
                    failedSub |-> 0, failedHow |-> "ok"]
           p == [probe EXCEPT
                    !.pos = n,
                    !.prior = probe.last,
                    !.waiting = starts,
                    !.subs = IF starts
                             THEN [i \in 1..step.count |->
                                      [state |-> "pending", out |-> Return(Undefined)]]
                             ELSE << >>,
                    !.order = << >>,
                    !.lateCalled = probe.lateCalled
                                      \/ (probe.failed /\ called /\ step.kind # "mapError"),
                    !.mapped = probe.mapped
                                  \/ (probe.failed /\ called /\ step.kind = "mapError")]
       IN probe' = Outcome(p, this, out)
    /\ ChainUnchanged

\* Sub-operation i of the running fan-out settles.
SubSettles(i) ==
    /\ probe.op = "chain"
    /\ probe.waiting
    /\ probe.subs[i].state = "pending"
    /\ \E how \in SubHows :
       LET step == probe.last
           o == SubOutcome(step.kind, i, how, step.input)
           subs == [probe.subs EXCEPT ![i] = [state |-> "settled", out |-> o]]
           outs == [j \in DOMAIN subs |-> subs[j].out]
           order == Append(probe.order, i)
           late == \E j \in DOMAIN subs : j < i /\ probe.subs[j].state = "pending"
           first == how # "ok" /\ step.failedSub = 0
           seen == [step EXCEPT !.outOfOrder = step.outOfOrder \/ late,
                                !.failedSub = IF first THEN i ELSE step.failedSub,
                                !.failedHow = IF first THEN how ELSE step.failedHow]
           closed == [probe EXCEPT !.waiting = FALSE, !.subs = << >>, !.order = << >>]
       IN IF FanOutFails(o)
          THEN probe' = Outcome(closed, seen, FanOutFailure(o))
          ELSE IF \A j \in DOMAIN subs : subs[j].state = "settled"
          THEN probe' = Outcome(closed, seen, FanOutJoin(step.kind, step.input, outs, order))
          ELSE probe' = [probe EXCEPT !.subs = subs, !.order = order, !.last = seen]
    /\ ChainUnchanged

\* result() is called on the chain built so far.
ChainResult ==
    /\ probe.op = "chain"
    /\ ~probe.done
    /\ ~probe.waiting
    /\ probe' = [probe EXCEPT
                    !.done = TRUE,
                    !.final = IF probe.sync THEN LiftResult(probe.cur)
                              ELSE AsyncResult(probe.cur)]
    /\ ChainUnchanged

NextChain ==
    \/ \E step \in Steps(probe.sync) : ChainStep(step)
    \/ \E i \in DOMAIN probe.subs : SubSettles(i)
    \/ ChainResult

SpecChain == InitChain /\ [][NextChain]_vars

-----------------------------------------------------------------------------
(* cli.ts and index.ts: main, run, parseCodeBaseTranslations, translate *)

\* What initializeSettings() does: a Right with the settings, a Left, or an
\* exception.
SettingsOutcomes == {"right", "left", "throw"}

\* What read(codebaseConfig) resolves to: a Right with the strings found in
\* the code base, a Left, or a rejection.
ScanOutcomes == {"right", "left", "reject"}

\* The translations a scan of the code base may find: every string found is
\* its own key, translations[text] = text.
ScannedTranslations ==
    { MapOf(<< >>),
      MapOf(<< <<"hello", "hello">> >>),
      MapOf(<< <<"hello", "hello">>, <<"world", "world">> >>) }

\* A main whose catch does not set the exit code.
mainExitsZero(outcome) ==
    IF outcome.thrown THEN 0 ELSE 0

\* main(): try { await run() } catch (error) { ...; process.exit(1) }. The
\* exit code of the process for an outcome of run().
main(outcome) ==
    IF outcome.thrown THEN 1 ELSE 0

CliStarts ==
    [op |-> "cli", phase |-> "settings", stage |-> "none", code |-> 0,
     error |-> Undefined]

\* The process ends while run() was in the given stage.
CliExited(stage, outcome) ==
    [op |-> "cli", phase |-> "exited", stage |-> stage, code |-> main(outcome),
     error |-> IF outcome.thrown THEN outcome.v ELSE Undefined]

InitCli ==
    /\ Project
    /\ Idle
    /\ probe = CliStarts

\* run(), up to parseCodeBaseTranslations: initializeSettings() and the
\* isLeft test that throws the Left's value.
CliSettings ==
    /\ probe.op = "cli"
    /\ probe.phase = "settings"
    /\ \E o \in SettingsOutcomes :
          probe' = CASE o = "right" -> [probe EXCEPT !.phase = "scan"]
                     [] o = "left" -> CliExited("settings", Throw(Err("SettingsLeft")))
                     [] o = "throw" -> CliExited("settings", Throw(Err("SettingsThrew")))
    /\ UNCHANGED <<store, defaultLanguage, supported, readerKind, run, pc, promise,
                   readerCalls, readValue, readSet, entries, runner, sent, replies,
                   writerCalls, writes, result, logged, prevRun>>

\* parseCodeBaseTranslations(settings): the scan, then the write of the
\* default language's file without append; a Left of either is thrown.
parseCodeBaseTranslations ==
    /\ probe.op = "cli"
    /\ probe.phase = "scan"
    /\ \E o \in ScanOutcomes, scanned \in ScannedTranslations, fsError \in BOOLEAN :
          LET w == writeLanguageFile(store, defaultLanguage, scanned, FALSE, fsError)
          IN CASE o = "left" ->
                    /\ probe' = CliExited("scan", Throw(Err("ScanLeft")))
                    /\ store' = store
               [] o = "reject" ->
                    /\ probe' = CliExited("scan", Throw(Err("ScanRejected")))
                    /\ store' = store
               [] o = "right" /\ isLeft(w.res) ->
                    /\ probe' = CliExited("write", Throw(w.res.get["value"]))
                    /\ store' = w.files
               [] OTHER ->
                    /\ probe' = [probe EXCEPT !.phase = "translate"]
                    /\ store' = w.files
    /\ UNCHANGED <<defaultLanguage, supported, readerKind, run, pc, promise,
                   readerCalls, readValue, readSet, entries, runner, sent, replies,
                   writerCalls, writes, result, logged, prevRun>>

\* translate(settings): the one call of addMissingTranslations and what
\* follows from it while the process lives.
CliTranslate ==
    /\ probe.op = "cli"
    /\ probe.phase = "translate"
    /\ \/ run = 0 /\ Start
       \/ ReaderSettles
       \/ \E i \in DOMAIN runner : TranslatorResolves(i)
       \/ \E i \in DOMAIN runner : TranslatorRejects(i)
       \/ \E i \in DOMAIN writes : WriterSettles(i)

\* The promise of run() has settled: a rejection reaches main's catch, after
\* a resolution the process ends once nothing is pending.
CliExit ==
    /\ probe.op = "cli"
    /\ probe.phase = "translate"
    /\ pc = "done"
    /\ promise = "rejected" \/ Settled
    /\ probe' = CliExited("translate",
                          IF promise = "rejected" THEN Throw(result)
                          ELSE Return(Undefined))
    /\ UNCHANGED <<store, defaultLanguage, supported, readerKind, run, pc, promise,
                   readerCalls, readValue, readSet, entries, runner, sent, replies,
                   writerCalls, writes, result, logged, prevRun>>

NextCli ==
    \/ CliSettings
    \/ parseCodeBaseTranslations
    \/ CliTranslate
    \/ CliExit

SpecCli == InitCli /\ [][NextCli]_vars

-----------------------------------------------------------------------------
(* translationsParser.ts: the objects the pipeline reads and writes *)

\* The translation maps live on a heap, a sequence of objects indexed by
\* reference; 0 stands for undefined. An object literal {} takes the next
\* free reference.
NewRef(heap) == Len(heap) + 1

\* acc[key] = defaultTranslations[key] for each key in turn.
RECURSIVE ReduceOnHeap(_, _, _, _)
ReduceOnHeap(heap, acc, keys, defaultTranslations) ==
    IF keys = << >> THEN heap
    ELSE ReduceOnHeap([heap EXCEPT ![acc] = SetKey(@, Head(keys),
                                                   Get(heap[defaultTranslations], Head(keys)))],
                      acc, Tail(keys), defaultTranslations)

\* A differ that reduces into the target map instead of a new object.
getMissingTranslationsIntoTarget(heap, defaultTranslations, targetTranslations) ==
    LET missingTranslationKeys ==
            SelectSeq(ObjectKeys(heap[defaultTranslations]),
                      LAMBDA key : ~Truthy(Get(heap[targetTranslations], key)))
        acc == targetTranslations
    IN [heap |-> ReduceOnHeap(heap, acc, missingTranslationKeys, defaultTranslations),
        ref |-> acc]

\* getMissingTranslations on references: the reduce starts from a new object
\* {} and writes the missing keys into it.
getMissingTranslationsOnHeap(heap, defaultTranslations, targetTranslations) ==
    LET missingTranslationKeys ==
            SelectSeq(ObjectKeys(heap[defaultTranslations]),
                      LAMBDA key : ~Truthy(Get(heap[targetTranslations], key)))
        acc == NewRef(heap)
    IN [heap |-> ReduceOnHeap(Append(heap, EmptyObject), acc, missingTranslationKeys,
                              defaultTranslations),
        ref |-> acc]

\* extractMissingTranslations(...).map(addTranslator(...)): one differ call per
\* entry of others, in list order; addTranslator spreads the entry, so the new
\* entry refers to the same map.
RECURSIVE MissingOnHeap(_, _, _, _)
MissingOnHeap(heap, default, others, acc) ==
    IF others = << >> THEN [heap |-> heap, entries |-> acc]
    ELSE LET m == getMissingTranslationsOnHeap(heap, default, Head(others).ref)
         IN MissingOnHeap(m.heap, default, Tail(others),
                          Append(acc, [language |-> Head(others).language, ref |-> m.ref]))

\* missingTranslationsWithTranslator.map(translate): each call creates its
\* own translated = {} before its first await.
RECURSIVE RunnersOnHeap(_, _, _)
RunnersOnHeap(heap, es, acc) ==
    IF es = << >> THEN [heap |-> heap, runners |-> acc]
    ELSE LET translated == NewRef(heap)
             keys == ObjectKeys(heap[Head(es).ref])
         IN RunnersOnHeap(Append(heap, EmptyObject), Tail(es),
                          Append(acc, [language |-> Head(es).language,
                                       translations |-> Head(es).ref,
                                       translated |-> translated,
                                       pos |-> 1,
                                       got |-> EmptyObject,
                                       status |-> IF keys = << >> THEN "resolved"
                                                  ELSE "running"]))

HeapLists == { <<"en">>, <<"en", "fr">>, <<"fr", "en", "de">>, <<"fr", "de">> }

HeapMaps(l) ==
    CASE l = "en" -> DefaultFiles
      [] l = "fr" -> { EmptyObject, MapOf(<< <<"hello", "Bonjour">> >>),
                       MapOf(<< <<"hello", "">>, <<"world", "Monde">> >>) }
      [] OTHER -> { EmptyObject, MapOf(<< <<"world", "Welt">> >>) }

\* The reader has resolved to a set whose i-th language refers to object i.
InitHeap ==
    /\ Quiet
    /\ \E list \in HeapLists :
       \E maps \in [1..Len(list) -> UNION {HeapMaps(l) : l \in Languages}] :
          /\ \A i \in 1..Len(list) : maps[i] \in HeapMaps(list[i])
          /\ probe = [op |-> "heap", stage |-> "read", heap |-> maps, before |-> maps,
                      set |-> [i \in 1..Len(list) |-> [language |-> list[i], ref |-> i]],
                      default |-> 0, others |-> << >>, missing |-> << >>,
                      runners |-> << >>]

HeapUnchanged ==
    UNCHANGED <<store, defaultLanguage, supported, readerKind, run, pc, promise,
                readerCalls, readValue, readSet, entries, runner, sent, replies,
                writerCalls, writes, result, logged, prevRun>>

\* extractDefaultAndOthers: new wrapper objects that refer to the set's maps.
HeapPartition ==
    /\ probe.op = "heap"
    /\ probe.stage = "read"
    /\ LET set == probe.set
           found == {i \in DOMAIN set : set[i].language = defaultLanguage}
       IN probe' = [probe EXCEPT
                       !.stage = "partitioned",
                       !.default = IF found = {} THEN 0 ELSE set[CHOOSE i \in found : TRUE].ref,
                       !.others = SelectSeq(set, LAMBDA en : en.language # defaultLanguage)]
    /\ HeapUnchanged

\* extractMissingTranslations, addTranslator and the start of every Runner;
\* an undefined default map makes the first differ call throw.
HeapTranslateStarts ==
    /\ probe.op = "heap"
    /\ probe.stage = "partitioned"
    /\ IF probe.default = 0 /\ probe.others # << >>
       THEN probe' = [probe EXCEPT !.stage = "failed"]
       ELSE LET m == MissingOnHeap(probe.heap, probe.default, probe.others, << >>)
                r == RunnersOnHeap(m.heap, m.entries, << >>)
            IN probe' = [probe EXCEPT !.stage = "translating", !.heap = r.heap,
                                      !.missing = m.entries, !.runners = r.runners]
    /\ HeapUnchanged

\* translated[key] = translatedText in Runner i.
HeapReply(i) ==
    /\ probe.op = "heap"
    /\ probe.stage = "translating"
    /\ probe.runners[i].status = "running"
    /\ LET r == probe.runners[i]
           keys == ObjectKeys(probe.heap[r.translations])
           key == keys[r.pos]
       IN \E translatedText \in {Str("TR_" \o TextOf(Get(probe.heap[r.translations], key))),
                                 Str("")} :
             probe' = [probe EXCEPT
                          !.heap[r.translated] = SetKey(@, key, translatedText),
                          !.runners[i].got = SetKey(@, key, translatedText),
                          !.runners[i].pos = r.pos + 1,
                          !.runners[i].status = IF r.pos < Len(keys) THEN "running"
                                                ELSE "resolved"]
    /\ HeapUnchanged

NextHeap ==
    \/ HeapPartition
    \/ HeapTranslateStarts
    \/ \E i \in DOMAIN probe.runners : HeapReply(i)

SpecHeap == InitHeap /\ [][NextHeap]_vars

-----------------------------------------------------------------------------
(* Properties *)

KeySet(o) == Range(ObjectKeys(o))

\* The non-default languages of the set the store held at the read.
OtherLanguages == KeySet(readSet) \ {defaultLanguage}

\* The keys a writer argument carries for language l, whether the argument is
\* the entry {language: l, translations} or the record {[l]: translations}.
HandedKeys(arg, l) ==
    (IF Get(arg, "language") = Str(l) THEN KeySet(Get(arg, "translations")) ELSE {})
        \cup KeySet(Get(arg, l))

WriterCallsFor(l) ==
    {c \in DOMAIN writerCalls :
        Get(writerCalls[c], "language") = Str(l) \/ Get(writerCalls[c], l).kind = "object"}

TranslatorRejected(i) == runner[i].error.kind = "error"

RunSucceeded == pc = "done" /\ promise = "fulfilled" /\ logged = << >>

\* C1: a (non-default language, key) whose stored value was truthy at the read
\* keeps that value in the store throughout the run, and the key is in no
\* argument handed to the writer for that language.
C1_NoOverwrite ==
    \A l \in OtherLanguages :
        \A k \in KeySet(Get(readSet, l)) :
            Truthy(Get(Get(readSet, l), k)) =>
                /\ Get(ReadLanguage(store, l), k) = Get(Get(readSet, l), k)
                /\ \A c \in DOMAIN writerCalls : k \notin HandedKeys(writerCalls[c], l)

\* A finished, successful run that handed the writer new keys for a language
\* that already had a truthy translation.
C1_Witness ==
    /\ RunSucceeded
    /\ \E l \in OtherLanguages :
          /\ \E k \in KeySet(Get(readSet, l)) : Truthy(Get(Get(readSet, l), k))
          /\ \E c \in DOMAIN writerCalls : HandedKeys(writerCalls[c], l) # {}

\* C2: after a first run that completed without failure, the second run makes
\* no translator invocation.
C2_SecondRunSilent ==
    (run >= 2 /\ prevRun.ok) => sent = EmptyBag

\* C3: the promise addMissingTranslations returns never rejects; once the chain
\* has finished it is fulfilled, and a failure shows as exactly a logged value.
C3_NeverRejects ==
    /\ promise # "rejected"
    /\ pc = "done" => /\ promise = "fulfilled"
                      /\ isLeft(result) <=> logged # << >>
                      /\ isLeft(result) => logged = <<result.get["value"]>>
    /\ pc # "done" => logged = << >>

\* A run in which the writer threw synchronously, finished and logged.
C3_Witness ==
    /\ pc = "done"
    /\ promise = "fulfilled"
    /\ logged = <<Err("WriterThrew")>>

\* C4: when the reader resolves to a Left, neither the translator nor the
\* writer is invoked in that run, and the finished run has logged a failure.
C4_ReadFailureTerminal ==
    (readerKind = "left" /\ run >= 1) =>
        /\ sent = EmptyBag
        /\ writerCalls = << >>
        /\ pc = "done" => (promise = "fulfilled" /\ Len(logged) = 1)

\* C5: once a translator call has rejected, the writer has not been and is not
\* invoked, the run has logged one failure and resolved; and the writer is
\* only ever invoked when every Runner has resolved.
C5_AbortBeforeWrite ==
    /\ (\E i \in DOMAIN runner : TranslatorRejected(i)) =>
            /\ writerCalls = << >>
            /\ pc = "done"
            /\ promise = "fulfilled"
            /\ Len(logged) = 1
    /\ writerCalls # << >> => \A i \in DOMAIN runner : runner[i].status = "resolved"

\* One language's Runner has translated all its keys, another's has rejected.
C5_Witness ==
    /\ pc = "done"
    /\ \E i, j \in DOMAIN runner :
          /\ runner[i].status = "resolved"
          /\ KeySet(runner[i].translated) # {}
          /\ TranslatorRejected(j)

\* The run got a set from its reader that holds the default language, no
\* translator call rejected and the writer did not throw.
ReaderAndTranslatorsSucceeded ==
    /\ pc = "done"
    /\ readerKind \in {"raw", "either"}
    /\ defaultLanguage \in KeySet(readSet)
    /\ \A i \in DOMAIN runner : ~TranslatorRejected(i)
    /\ logged # <<Err("WriterThrew")>>

\* C6: in a run where the reader and every translator call succeeded, the
\* writer was invoked exactly once for each non-default language of the read
\* set and never for the default language; with only the default language in
\* the set neither translator nor writer was invoked.
C6_WriterOncePerLanguage ==
    ReaderAndTranslatorsSucceeded =>
        /\ \A l \in OtherLanguages : Cardinality(WriterCallsFor(l)) = 1
        /\ WriterCallsFor(defaultLanguage) = {}
        /\ Len(writerCalls) = Cardinality(OtherLanguages)
        /\ OtherLanguages = {} => sent = EmptyBag

\* C7: every writer argument has exactly one key, a language of the fan-out,
\* mapped to that language's translated map.
C7_WriterArgumentShape ==
    \A c \in DOMAIN writerCalls :
        \E i \in DOMAIN entries :
            /\ ObjectKeys(writerCalls[c]) = <<entries[i].language>>
            /\ Get(writerCalls[c], entries[i].language) = runner[i].translated

\* C8: every prompt is composed with source = the default language and
\* target = the language of the entry being translated.
C8_PromptDirection ==
    \A call \in BagToSet(sent) :
        /\ call.from = defaultLanguage
        /\ call.to = call.language

\* C9: after a run in which reader, translator calls and writes all succeeded,
\* each non-default language's stored map has every key of the default map:
\* a key that was truthy keeps its value, a key that was absent or empty holds
\* the stub's output for the default value.
C9_EndToEnd ==
    (/\ RunSucceeded
     /\ readerKind \in {"raw", "either"}
     /\ defaultLanguage \in KeySet(readSet)
     /\ \A i \in DOMAIN runner : \A k \in KeySet(runner[i].translated) :
            Truthy(Get(runner[i].translated, k))) =>
        \A l \in OtherLanguages :
            \A k \in KeySet(Get(readSet, defaultLanguage)) :
                LET old == Get(Get(readSet, l), k)
                    new == Get(ReadLanguage(store, l), k)
                IN /\ k \in KeySet(ReadLanguage(store, l))
                   /\ IF Truthy(old) THEN new = old
                      ELSE new = Str("TR_" \o TextOf(Get(Get(readSet, defaultLanguage), k)))

\* C10: getMissingTranslations(D, T) has exactly the keys of D whose value in T
\* is absent or falsy, each with D's value; it is {} iff every key of D is
\* present and truthy in T; and getMissingTranslations(D, {}) = D.
C10_Differ ==
    (probe.op = "getMissingTranslations" /\ probe.applied) =>
        LET D == probe.D
            T == probe.T
            out == probe.out
        IN /\ ~out.thrown
           /\ KeySet(out.v) = {k \in KeySet(D) : ~Truthy(Get(T, k))}
           /\ \A k \in KeySet(out.v) : Get(out.v, k) = Get(D, k)
           /\ (out.v = EmptyObject) <=>
                 (\A k \in KeySet(D) : k \in KeySet(T) /\ Truthy(Get(T, k)))
           /\ T = EmptyObject => out.v = D

\* The differ was applied to a target with one key translated and one key
\* present but empty, and reported only the empty one.
C10_Witness ==
    /\ probe.op = "getMissingTranslations"
    /\ probe.applied
    /\ \E k1, k2 \in KeySet(probe.D) :
          /\ Get(probe.T, k1) = Str("")
          /\ Truthy(Get(probe.T, k2))
          /\ KeySet(probe.out.v) = {k1}

\* C11: extractDefaultAndOthers(lang, set) puts every key of set in exactly one
\* of default and others, lists no language twice in others, gives each others
\* entry that language's own map, and leaves |keys(set)| - 1 entries in others
\* when lang is a key of set.
C11_Partition ==
    (probe.op = "extractDefaultAndOthers" /\ probe.applied) =>
        LET set == probe.set
            out == probe.out
            d == out.v.default
            o == out.v.others
            InOthers(k) == {i \in DOMAIN o : o[i].language = k}
        IN /\ ~out.thrown
           /\ d.language = probe.lang
           /\ d.translations = Get(set, probe.lang)
           /\ \A k \in KeySet(set) :
                 (IF k = d.language THEN 1 ELSE 0) + Cardinality(InOthers(k)) = 1
           /\ \A i, j \in DOMAIN o : o[i].language = o[j].language => i = j
           /\ \A i \in DOMAIN o :
                 /\ o[i].language \in KeySet(set)
                 /\ o[i].translations = Get(set, o[i].language)
           /\ probe.lang \in KeySet(set) => Len(o) = Len(ObjectKeys(set)) - 1

\* The partition was applied to a set of three languages whose default is
\* neither first nor last, and left the two others.
C11_Witness ==
    /\ probe.op = "extractDefaultAndOthers"
    /\ probe.applied
    /\ Len(ObjectKeys(probe.set)) = 3
    /\ ObjectKeys(probe.set)[2] = probe.lang
    /\ Len(probe.out.v.others) = 2

\* The translator invocations of the current run made for entry i.
CallsOf(i) == {call \in BagToSet(sent) : call.language = entries[i].language}

\* C12: within one language's Runner at most one translator call is in flight,
\* it is the call for the key at the Runner's position, every earlier key has
\* resolved, no later key's call has been issued, and no call is issued twice.
C12_SequentialWithinLanguage ==
    \A i \in DOMAIN runner :
        LET keys == ObjectKeys(entries[i].translations)
            r == runner[i]
            issuedKeys == {call.key : call \in CallsOf(i)}
        IN /\ Cardinality(r.inflight) <= 1
           /\ \A call \in CallsOf(i) : CopiesIn(call, sent) = 1
           /\ r.status = "running" =>
                 /\ r.inflight = {keys[r.pos]}
                 /\ KeySet(r.translated) = {keys[j] : j \in 1..(r.pos - 1)}
           /\ issuedKeys = {keys[j] : j \in 1..r.pos}
           /\ Cardinality(issuedKeys \ KeySet(r.translated)) <= 1

\* A Runner with two keys whose first call has resolved and whose second call
\* is in flight.
C12_Witness ==
    \E i \in DOMAIN runner :
        /\ runner[i].status = "running"
        /\ runner[i].pos = 2
        /\ KeySet(runner[i].translated) = {ObjectKeys(entries[i].translations)[1]}
        /\ runner[i].inflight = {ObjectKeys(entries[i].translations)[2]}

\* C13: every entry with keys has its first translator call issued as soon as
\* the fan-out has begun, whatever the state of the other Runners, and every
\* running Runner has a call in flight that waits for the translator only, so
\* the calls of different languages settle in any order.
C13_ConcurrentAcrossLanguages ==
    \A i \in DOMAIN runner :
        /\ ObjectKeys(entries[i].translations) # << >> => CallsOf(i) # {}
        /\ runner[i].status \in {"running", "resolved", "rejected"}
        /\ runner[i].status = "running" => runner[i].inflight # {}

\* Two Runners with two keys each: the one listed later has finished while
\* the one listed first is still waiting for its second key.
C13_Witness ==
    \E i, j \in DOMAIN runner :
        /\ i < j
        /\ runner[i].status = "running"
        /\ runner[i].pos = 2
        /\ runner[j].status = "resolved"
        /\ Cardinality(KeySet(runner[j].translated)) = 2

\* C14: a Runner that has resolved has invoked its bound translate function
\* exactly once per key of its input map, with that key's value, and its value
\* is {language, translations} with the entry's language, the input's keys and
\* each key mapped to what the translator returned for it; with an empty input
\* it made no call and its map is empty.
C14_RunnerTranslatesEveryKey ==
    \A i \in DOMAIN runner :
        runner[i].status = "resolved" =>
            LET input == entries[i].translations
                value == RunnerValue(entries[i], runner[i].translated)
            IN /\ {call.key : call \in CallsOf(i)} = KeySet(input)
               /\ \A call \in CallsOf(i) :
                     /\ CopiesIn(call, sent) = 1
                     /\ call.text = Get(input, call.key)
               /\ ObjectKeys(value) = <<"language", "translations">>
               /\ Get(value, "language") = Str(entries[i].language)
               /\ ObjectKeys(Get(value, "translations")) = ObjectKeys(input)
               /\ \A k \in KeySet(input) :
                     Get(Get(value, "translations"), k) = Get(replies[i], k)
               /\ ObjectKeys(input) = << >> =>
                     (CallsOf(i) = {} /\ Get(value, "translations") = EmptyObject)

\* One Runner resolved after translating two keys, another resolved at once on
\* an empty map.
C14_Witness ==
    \E i, j \in DOMAIN runner :
        /\ runner[i].status = "resolved"
        /\ Len(ObjectKeys(entries[i].translations)) = 2
        /\ \A k \in KeySet(runner[i].translated) : Truthy(Get(runner[i].translated, k))
        /\ runner[j].status = "resolved"
        /\ entries[j].translations = EmptyObject

\* C15: a Runner whose translator call rejected with e has rejected with that
\* e, delivers no value, and has issued the calls for the keys up to the
\* rejected one and for no later key.
C15_RunnerRejectsWithSameError ==
    \A i \in DOMAIN runner :
        /\ TranslatorRejected(i) =>
              /\ runner[i].status = "rejected"
              /\ runner[i].error = Err("TranslationFailed:" \o entries[i].language)
              /\ runner[i].inflight = {}
              /\ {call.key : call \in CallsOf(i)} =
                     {ObjectKeys(entries[i].translations)[j] : j \in 1..runner[i].pos}
              /\ Cardinality(KeySet(replies[i])) = runner[i].pos - 1
        /\ runner[i].status = "rejected" => TranslatorRejected(i)

\* A Runner with two keys rejected at its first key: the second key's call was
\* never issued.
C15_Witness ==
    \E i \in DOMAIN runner :
        /\ runner[i].status = "rejected"
        /\ runner[i].pos = 1
        /\ Len(ObjectKeys(entries[i].translations)) = 2
        /\ Cardinality(CallsOf(i)) = 1

\* Whether the void step or fan-out remembered in l ran and succeeded.
Succeeded(l) ==
    /\ l.called
    /\ l.does = "returns"
    /\ l.failedSub = 0
    /\ ~Failing(l.after)

\* The error a failed chain carries.
ErrorOf(c) == IF c.thrown THEN c.v ELSE c.v.get["value"]

SubFailure(i, how) ==
    IF how = "fail" THEN Return(left(SubError("SubFailed", i)))
    ELSE Throw(SubError("SubRejected", i))

\* C17: when a sub-operation of flatMapAll or flatMapAllVoid has failed with e
\* and the fan-out has finished, the chain holds the failure e; no function of
\* a later step is called, and result() returns Failure(e).
C17_FanOutFailure ==
    LET l == probe.last
        f == probe.failedBy
    IN probe.op = "chain" =>
          /\ (l.kind \in FanOutKinds /\ l.called /\ l.failedSub # 0 /\ ~probe.waiting) =>
                probe.cur = SubFailure(l.failedSub, l.failedHow)
          /\ (probe.failed /\ f.kind \in FanOutKinds) =>
                /\ f.failedSub # 0
                /\ probe.failure = SubFailure(f.failedSub, f.failedHow)
                /\ ~probe.lateCalled
                /\ ~probe.mapped => probe.cur = probe.failure
                /\ (probe.done /\ ~probe.mapped) =>
                      probe.final = Return(left(ErrorOf(probe.failure)))

\* The first of two sub-operations resolved to a Left after the second had
\* succeeded, a further step was added and result() was called.
C17_Witness ==
    /\ probe.op = "chain"
    /\ probe.failed
    /\ probe.failedBy.kind \in FanOutKinds
    /\ probe.failedBy.count = 2
    /\ probe.failedBy.failedSub = 1
    /\ probe.failedBy.failedHow = "fail"
    /\ probe.failedBy.outOfOrder
    /\ probe.pos > probe.failedBy.n
    /\ probe.last.kind \in {"map", "flatMap", "flatMapVoid"}
    /\ probe.done

\* C18: after a flatMapVoid or flatMapAllVoid step whose void operations all
\* succeeded (none at all included), the chain holds the value that came into
\* the step, and the function of the next step is called on that value.
C18_VoidPassesInputThrough ==
    LET l == probe.last
        pr == probe.prior
        VoidKinds == {"flatMapVoid", "flatMapAllVoid"}
    IN probe.op = "chain" =>
          /\ (l.kind \in VoidKinds /\ ~probe.waiting /\ Succeeded(l)) =>
                /\ probe.cur = l.before
                /\ isRight(probe.cur.v)
          /\ (l.kind \in VoidKinds /\ l.called /\ l.failedSub = 0
                 /\ l.does = "returns" /\ ~probe.waiting) => Succeeded(l)
          /\ (pr.kind \in VoidKinds /\ Succeeded(pr) /\ l.kind # "mapError") =>
                /\ l.called
                /\ l.input = RightValue(pr.before)

\* A flatMapAllVoid of two sub-operations succeeded and the flatMapVoid after
\* it was called and succeeded too.
C18_Witness ==
    /\ probe.op = "chain"
    /\ probe.prior.kind = "flatMapAllVoid"
    /\ probe.prior.count = 2
    /\ Succeeded(probe.prior)
    /\ probe.last.kind = "flatMapVoid"
    /\ Succeeded(probe.last)

\* C19: once a step has yielded Failure(e), the function of no later map,
\* flatMap, flatMapVoid or fan-out step is called, the chain keeps Failure(e)
\* and result() returns it (as long as no mapError step is applied to it); on
\* Success(v), map(f) yields Success(f(v)) and flatMap(f) yields f(v).
C19_FailureShortCircuits ==
    LET l == probe.last
    IN probe.op = "chain" =>
          /\ (probe.failed /\ ~probe.failure.thrown) =>
                /\ ~probe.lateCalled
                /\ ~probe.mapped => probe.cur = probe.failure
                /\ (probe.done /\ ~probe.mapped) => probe.final = probe.failure
          /\ l.kind \in {"map", "flatMap", "flatMapVoid"} =>
                (l.called <=> (~l.before.thrown /\ isRight(l.before.v)))
          /\ (l.kind = "map" /\ l.called /\ l.does = "returns") =>
                probe.cur = Return(right(App("f" \o ToString(l.n), RightValue(l.before))))
          /\ (l.kind = "flatMap" /\ l.called) =>
                probe.cur = Applied(l, l.n, RightValue(l.before))

\* A synchronous chain whose first step, a flatMap, returned a Left, followed
\* by a second step, with result() called.
C19_Witness ==
    /\ probe.op = "chain"
    /\ probe.sync
    /\ probe.failed
    /\ probe.failedBy.kind = "flatMap"
    /\ probe.failedBy.does = "fails"
    /\ probe.pos = 2
    /\ probe.last.kind \in {"map", "flatMap", "flatMapVoid"}
    /\ probe.done

\* C20: result() never throws or rejects: an exception thrown by the lifted
\* function or by a step function passes through the later steps and is
\* returned as a Left carrying that exception, in lift and in liftAsync; a
\* chain that did not throw returns what it holds.
C20_ResultNeverThrows ==
    probe.op = "chain" =>
        /\ (probe.failed /\ probe.failure.thrown) =>
              /\ probe.cur = probe.failure
              /\ ~probe.lateCalled
              /\ ~probe.mapped
        /\ probe.done =>
              /\ ~probe.final.thrown
              /\ probe.cur.thrown => probe.final = Return(left(probe.cur.v))
              /\ ~probe.cur.thrown => probe.final = probe.cur

\* A synchronous chain whose flatMap function threw, with result() called.
C20_Witness ==
    /\ probe.op = "chain"
    /\ probe.sync
    /\ probe.done
    /\ probe.failedBy.kind = "flatMap"
    /\ probe.failure.thrown
    /\ probe.final = Return(left(StepError("Threw", probe.failedBy.n)))

\* C21: a writeLanguageFile(lang, partial, {append: true}) that returned a
\* Right leaves for lang the map stored before overlaid with partial: the keys
\* of both, the incoming value for a key of partial, the stored value for any
\* other key; a missing file counts as the empty map, a failed write leaves
\* the file as it was, and no other language's file changes.
C21_MergeWrite ==
    (probe.op = "writeLanguageFile" /\ probe.applied /\ probe.append) =>
        LET lang == probe.language
            before == probe.files
            after == probe.out.files
            old == IF before[lang].kind = "object" THEN before[lang] ELSE EmptyObject
            partial == probe.translations
        IN /\ \A f \in DOMAIN after \cup DOMAIN before :
                 f # lang => (f \in DOMAIN after /\ f \in DOMAIN before /\ after[f] = before[f])
           /\ isLeft(probe.out.res) <=> (probe.fsError \/ before[lang].kind = "malformed")
           /\ isLeft(probe.out.res) => after[lang] = before[lang]
           /\ isRight(probe.out.res) =>
                 /\ after[lang].kind = "object"
                 /\ KeySet(after[lang]) = KeySet(old) \cup KeySet(partial)
                 /\ \A k \in KeySet(after[lang]) :
                       Get(after[lang], k) = IF k \in KeySet(partial) THEN Get(partial, k)
                                             ELSE Get(old, k)

\* A merge into a stored map with one key only the file has and one key that
\* both have, with different values.
C21_Witness ==
    /\ probe.op = "writeLanguageFile"
    /\ probe.applied
    /\ probe.append
    /\ isRight(probe.out.res)
    /\ probe.files[probe.language].kind = "object"
    /\ \E k1, k2 \in KeySet(probe.files[probe.language]) :
          /\ k1 \notin KeySet(probe.translations)
          /\ k2 \in KeySet(probe.translations)
          /\ Get(probe.translations, k2) # Get(probe.files[probe.language], k2)

\* C22: readAllTranslations(supported) returns a Right whose set has one entry
\* for each supported language and no other entry: the stored map when the
\* file holds one, the empty map when the file is missing, unreadable or
\* malformed.
C22_ReadAllEveryLanguage ==
    (probe.op = "readAllTranslations" /\ probe.applied) =>
        /\ isRight(probe.out)
        /\ LET set == probe.out.get["value"]
           IN /\ set.kind = "object"
              /\ KeySet(set) = Range(probe.supported)
              /\ Len(ObjectKeys(set)) = Cardinality(Range(probe.supported))
              /\ \A l \in KeySet(set) :
                    Get(set, l) = IF probe.files[l].kind = "object" THEN probe.files[l]
                                  ELSE EmptyObject

\* A read of three supported languages: one file holds a map, one is
\* malformed, one is missing.
C22_Witness ==
    /\ probe.op = "readAllTranslations"
    /\ probe.applied
    /\ Len(probe.supported) = 3
    /\ \E a, b, c \in Range(probe.supported) :
          /\ probe.files[a].kind = "object"
          /\ probe.files[b].kind = "malformed"
          /\ probe.files[c].kind = "absent"

\* C25: readTranslations(reader) never rejects; it returns the reader's own
\* Either when the reader resolves to one (Success(v) for Success(v),
\* Failure(e) for Failure(e), not wrapped in a Success) and Failure(e) when
\* the reader rejects with or throws e.
C25_ReadTranslationsUnwraps ==
    (probe.op = "readTranslations" /\ probe.applied) =>
        LET call == probe.call
            out == probe.out
        IN /\ ~out.thrown
           /\ (call.how = "resolve" /\ Get(call.v, "type") = Str("right")) => out.v = call.v
           /\ (call.how = "resolve" /\ Get(call.v, "type") = Str("left")) => out.v = call.v
           /\ call.how # "resolve" => out.v = left(call.v)

\* The (non-default language, key) pairs missing in the set the reader
\* returned: the keys of the default map whose value in the language's map is
\* absent or empty. A reader that returned no set leaves nothing to translate.
MissingPairs ==
    IF run >= 1 /\ readerKind \in {"raw", "either"}
    THEN {<<l, k>> : l \in OtherLanguages, k \in KeySet(Get(readSet, defaultLanguage))}
            \ {<<l, k>> \in OtherLanguages \X KeySet(Get(readSet, defaultLanguage)) :
                  Truthy(Get(Get(readSet, l), k))}
    ELSE {}

\* C23: in any run every translator invocation is for a missing (non-default
\* language, key) pair and no pair is sent twice; in a finished run whose
\* reader returned a set and whose translator calls all resolved, the number
\* of invocations is the number of missing pairs.
C23_OneSendPerMissingKey ==
    /\ \A call \in BagToSet(sent) :
          /\ CopiesIn(call, sent) = 1
          /\ <<call.language, call.key>> \in MissingPairs
          /\ \A other \in BagToSet(sent) :
                (other.language = call.language /\ other.key = call.key) => other = call
    /\ (/\ pc = "done"
        /\ readerKind \in {"raw", "either"}
        /\ \A i \in DOMAIN runner : runner[i].status = "resolved") =>
          BagCardinality(sent) = Cardinality(MissingPairs)

\* C24: a failure inside addMissingTranslations leaves the exit status alone:
\* run() resolves and the process exits with code 0; an error of settings
\* loading, of the code-base scan or of the default-file write makes the
\* process exit with a non-zero code before addMissingTranslations is called.
C24_CliExitStatus ==
    probe.op = "cli" =>
        /\ pc = "done" => promise = "fulfilled"
        /\ probe.phase = "exited" =>
              /\ probe.stage = "translate" => probe.code = 0
              /\ probe.stage \in {"settings", "scan", "write"} =>
                    (probe.code # 0 /\ run = 0)

C24_Witness ==
    /\ probe.op = "cli"
    /\ probe.phase = "exited"
    /\ probe.stage = "translate"
    /\ probe.code = 0
    /\ logged # << >>
    /\ \E i \in DOMAIN writes : ~writes[i].settle.thrown /\ isLeft(writes[i].settle.v)

\* The reader resolved to an object that has no key defaultLanguage.
MissingDefault ==
    /\ run >= 1
    /\ pc \notin {"idle", "reading"}
    /\ readValue.kind = "object"
    /\ defaultLanguage \notin KeySet(readValue)

\* The partition has an undefined default map and every entry in others; the
\* run logged a failure and resolved, and neither the translator nor the
\* writer was invoked.
MissingDefaultFails ==
    LET p == extractDefaultAndOthers(defaultLanguage, readValue)
        keys == ObjectKeys(readValue)
    IN /\ ~p.thrown
       /\ p.v.default = [language |-> defaultLanguage, translations |-> Undefined]
       /\ p.v.others = [i \in 1..Len(keys) |->
                            [language |-> keys[i], translations |-> Get(readValue, keys[i])]]
       /\ pc = "done"
       /\ promise = "fulfilled"
       /\ logged # << >>
       /\ sent = EmptyBag
       /\ writerCalls = << >>

\* C26 as stated: for every set the reader returns without the key
\* defaultLanguage, extractDefaultAndOthers gives an undefined default map and
\* all entries in others, and the run logs a failure and resolves without
\* invoking the translator or the writer.
C26_MissingDefault ==
    MissingDefault => MissingDefaultFails

\* C26 amended: the same for every such set that has at least one entry; for
\* the empty set the partition is as stated and neither the translator nor the
\* writer is invoked, whether or not a failure is logged.
C26_MissingDefaultNonEmpty ==
    MissingDefault =>
        IF ObjectKeys(readValue) # << >> THEN MissingDefaultFails
        ELSE LET p == extractDefaultAndOthers(defaultLanguage, readValue)
             IN /\ ~p.thrown
                /\ p.v.default.translations = Undefined
                /\ p.v.others = << >>
                /\ pc = "done"
                /\ promise = "fulfilled"
                /\ sent = EmptyBag
                /\ writerCalls = << >>

C26_Witness ==
    /\ MissingDefault
    /\ readerKind = "raw"
    /\ Len(ObjectKeys(readValue)) = 2
    /\ pc = "done"
    /\ logged = <<TypeError>>

\* The failure a settled writer call carries, Undefined if it succeeded.
WriteFailure(w) ==
    IF w.settle.thrown THEN w.settle.v
    ELSE IF isLeft(w.settle.v) THEN w.settle.v.get["value"]
    ELSE Undefined

\* C27: when several sub-operations of a fan-out fail, the failure surfaced is
\* that of the one that settled first: the first Runner to reject, or the first
\* writer call to fail, ends the run with its own error logged, and a failure
\* that settles afterwards, earlier in list order or not, does not replace it.
C27_FirstToSettleWins ==
    [][ /\ \A i \in DOMAIN runner :
             (/\ pc = "translating"
              /\ runner[i].status = "running"
              /\ runner'[i].status = "rejected")
                 => (pc' = "done" /\ logged' = <<runner'[i].error>>)
        /\ \A i \in DOMAIN writes :
             (/\ pc = "writing"
              /\ writes[i].state = "pending"
              /\ writes'[i].state = "settled"
              /\ WriteFailure(writes[i]) # Undefined)
                 => (pc' = "done" /\ logged' = <<WriteFailure(writes[i])>>)
        /\ (pc = "done" /\ pc' = "done") => logged' = logged
      ]_vars

\* Two Runners rejected, and the error logged is that of the later one in
\* list order.
C27_Witness ==
    /\ pc = "done"
    /\ \E i, j \in DOMAIN runner :
          /\ i < j
          /\ runner[i].status = "rejected"
          /\ runner[j].status = "rejected"
          /\ runner[i].error # runner[j].error
          /\ logged = <<runner[j].error>>

\* C28: no cancellation. A Runner that is running when another Runner rejects
\* stays as it was, its call pending; and after the run has logged the failure
\* and resolved, a Runner whose call resolves issues the call for its next key
\* (or resolves after its last key), so that it goes through all its keys
\* unless one of its own calls rejects.
C28_NoCancellation ==
    [][ \A i \in DOMAIN runner :
          LET keys == ObjectKeys(entries[i].translations)
              next == Invocation(entries[i], keys[runner[i].pos + 1])
          IN /\ (/\ runner[i].status = "running"
                 /\ \E j \in DOMAIN runner \ {i} :
                       runner[j].status = "running" /\ runner'[j].status = "rejected")
                    => (runner'[i] = runner[i] /\ runner'[i].inflight # {})
             /\ (/\ pc = "done"
                 /\ pc' = "done"
                 /\ runner[i].status = "running"
                 /\ runner'[i] # runner[i]
                 /\ runner'[i].status # "rejected")
                    => IF runner[i].pos < Len(keys)
                       THEN /\ runner'[i].status = "running"
                            /\ runner'[i].pos = runner[i].pos + 1
                            /\ runner'[i].inflight = {next.key}
                            /\ CopiesIn(next, sent) = 0
                            /\ CopiesIn(next, sent') = 1
                       ELSE /\ runner'[i].status = "resolved"
                            /\ KeySet(runner'[i].translated) = Range(keys)
      ]_vars

\* The run has logged one Runner's rejection and resolved while another
\* Runner still waits for its first key and has a second key to go.
C28_Witness ==
    /\ pc = "done"
    /\ promise = "fulfilled"
    /\ logged # << >>
    /\ \E i, j \in DOMAIN runner :
          /\ runner[j].status = "rejected"
          /\ logged = <<runner[j].error>>
          /\ runner[i].status = "running"
          /\ runner[i].pos = 1
          /\ Len(ObjectKeys(entries[i].translations)) = 2
          /\ CopiesIn(Invocation(entries[i], ObjectKeys(entries[i].translations)[2]), sent) = 0

\* C29: the pipeline never writes to its inputs. Every map of the set the
\* reader returned holds what it held when it was returned, through the
\* partition, the differ, addTranslator and the Runners; each Runner's output
\* map is an object created for it, none of the set's maps or of the differ's
\* maps and not another Runner's, and holds what that Runner wrote and
\* nothing else.
C29_InputsNeverMutated ==
    probe.op = "heap" =>
        LET heap == probe.heap
            rs == probe.runners
        IN /\ \A ref \in DOMAIN probe.before : heap[ref] = probe.before[ref]
           /\ \A i \in DOMAIN probe.set : probe.set[i].ref \in DOMAIN probe.before
           /\ \A i \in DOMAIN rs :
                 /\ rs[i].translated \notin DOMAIN probe.before
                 /\ \A j \in DOMAIN probe.missing : rs[i].translated # probe.missing[j].ref
                 /\ \A j \in DOMAIN rs : rs[i].translated = rs[j].translated => i = j
                 /\ heap[rs[i].translated] = rs[i].got
           /\ \A i \in DOMAIN probe.missing :
                 /\ probe.missing[i].ref \notin DOMAIN probe.before
                 /\ heap[probe.missing[i].ref] =
                       getMissingTranslations(probe.before[probe.default],
                                              probe.before[probe.others[i].ref]).v

\* Two Runners have each written a text into their own output map, for a set
\* in which a target map had a key to translate next to one it already had.
C29_Witness ==
    /\ probe.op = "heap"
    /\ probe.stage = "translating"
    /\ Len(probe.runners) = 2
    /\ \A i \in DOMAIN probe.runners :
          /\ probe.runners[i].status = "resolved"
          /\ ObjectKeys(probe.heap[probe.runners[i].translated]) # << >>
    /\ \E i \in DOMAIN probe.others :
          /\ ObjectKeys(probe.before[probe.others[i].ref]) # << >>
          /\ ObjectKeys(probe.heap[probe.missing[i].ref]) # << >>

\* Writer call i has settled with a Left.
WriteFailed(i) ==
    /\ writes[i].state = "settled"
    /\ ~writes[i].settle.thrown
    /\ isLeft(writes[i].settle.v)

\* The folder after the writer calls that resolved to a Right, in list
\* order, and nothing of the others.
RECURSIVE PersistedFrom(_, _, _, _)
PersistedFrom(files, calls, ws, i) ==
    IF i > Len(ws) THEN files
    ELSE PersistedFrom(IF ~ws[i].settle.thrown /\ isRight(ws[i].settle.v)
                       THEN writeLanguageFiles(files, calls[i], TRUE, FALSE).files
                       ELSE files,
                       calls, ws, i + 1)

\* C30: a write failure is not atomic across languages. When a writer call
\* has resolved to a Left (and no writer threw synchronously), the run has
\* logged a failure and resolved, and the writer was invoked exactly once for
\* every language of the fan-out, with that language's value; the folder
\* holds what the successful writer calls wrote from the step in which the
\* writes were started, and no later step of the run changes it.
C30_WriteFailureNotAtomic ==
    /\ [](  (Len(writes) = Len(writerCalls) /\ \E i \in DOMAIN writes : WriteFailed(i)) =>
                (/\ pc = "done"
                 /\ promise = "fulfilled"
                 /\ logged # << >>
                 /\ Len(writerCalls) = Len(entries)
                 /\ \A c \in DOMAIN writerCalls :
                       writerCalls[c] = WriterArgument(RunnerValues(entries, runner)[c]))  )
    /\ [][ /\ (writerCalls = << >> /\ writerCalls' # << >> /\ Len(writes') = Len(writerCalls')) =>
                 (store' = PersistedFrom(store, writerCalls', writes', 1))
           /\ (pc \in {"writing", "done"}) => (store' = store)
         ]_vars

\* Of two writer calls the first resolved to a Left; the second succeeded and
\* what it wrote is in the folder after the failure was logged.
C30_Witness ==
    /\ pc = "done"
    /\ promise = "fulfilled"
    /\ logged # << >>
    /\ Len(writes) = 2
    /\ Len(writerCalls) = 2
    /\ WriteFailed(1)
    /\ writes[2].state = "settled"
    /\ ~writes[2].settle.thrown
    /\ isRight(writes[2].settle.v)
    /\ \E f \in Range(ObjectKeys(writerCalls[2])) :
          /\ Get(writerCalls[2], f) = runner[2].translated
          /\ ObjectKeys(runner[2].translated) # << >>
          /\ store[f] = JsonRoundTrip(runner[2].translated)

====
